---------------------------- MODULE Spec2Model ----------------------------
(***************************************************************************)
(* Facility status state machine of the hygiene monitoring services.       *)
(*                                                                         *)
(* Spec     : the combined service (enhanced_auth_app): the simulator      *)
(*            thread, the staff request handlers and the completion        *)
(*            threads spawned by start_cleaning, all working on the global *)
(*            toilets_data / real_time_updates without any lock.           *)
(* SpecDual : the staff service (staff_app) pushing its updates to the     *)
(*            webhook of the public service (public_app).                  *)
(*                                                                         *)
(* Time is counted in minutes since the start of the service.              *)
(***************************************************************************)
EXTENDS Integers, Sequences, FiniteSets, Bags, TLC

(***************************************************************************)
(* Bounds of the model.                                                    *)
(***************************************************************************)
\* transitions of the combined service begun in one explored run
MaxUpdates == 2
\* the clock stops advancing past this minute
MaxNow == 70
\* minutes added by one step of the clock
ClockStep == 70
\* transitions of the staff service begun in one explored run
MaxStaffUpdates == 2
\* length of the public service's list past which no webhook post and no
\* sync pull is explored
MaxPublicUpdates == 1
\* the longest time since a toilet was last cleaned, in hours, that the
\* toilets drawn for the read requests have
MaxHours == 12

(***************************************************************************)
(* Program constants.                                                      *)
(***************************************************************************)
\* simulate_real_time_updates keeps the last 50 updates
LedgerCap == 50
\* get_real_time_updates returns the last 15 updates
RecentCount == 15
\* start_cleaning: "Moderate score while cleaning"
CleaningScore == 50
\* sync_with_public hands out the last 10 updates
SyncCount == 10
\* sync_with_public hands out updates of the last 60 minutes
SyncWindow == 60

VARIABLES
    toilets_data,       \* combined service: toilet id -> record
    real_time_updates,  \* combined service: the ledger, a sequence of updates
    sim,                \* position of the simulator thread
    handlers,           \* position of each request handling thread
    last_response,      \* the answer given to the latest finished request
    completions,        \* bag of completion threads spawned by start_cleaning
    now,                \* the clock, in minutes
    staff_toilets_data, \* staff service: toilet id -> record
    staff_updates,      \* staff service: the ledger
    staff_handlers,     \* staff service: position of each request handler
    staff_response,     \* staff service: the answer to the latest request
    next_id,            \* staff service: number of update ids handed out
    push_log,           \* every requests.post attempted by the staff service
    public_updates,     \* public service: real_time_updates
    last_pull           \* public service: the answer to its latest sync pull

combinedVars == <<toilets_data, real_time_updates, sim, handlers, last_response,
                  completions>>
dualVars == <<staff_toilets_data, staff_updates, staff_handlers, staff_response,
              next_id, push_log, public_updates, last_pull>>
vars == <<toilets_data, real_time_updates, sim, handlers, last_response,
          completions, now,
          staff_toilets_data, staff_updates, staff_handlers, staff_response,
          next_id, push_log, public_updates, last_pull>>

(***************************************************************************)
(* The data of the combined service.                                       *)
(***************************************************************************)
ToiletIds == {"toilet_001", "toilet_002", "toilet_003"}

\* ids a request may carry: the known ones and one that names no toilet
RequestIds == ToiletIds \cup {"toilet_999"}

NoCleaner == "None"

Cleaner == "cleaner@example.com"
Admin == "admin@example.com"
PublicUser == "user@example.com"

Users == {Cleaner, Admin, PublicUser}

users_db ==
    [u \in Users |->
        CASE u = Cleaner -> [role |-> "cleaner"]
          [] u = Admin -> [role |-> "admin"]
          [] OTHER -> [role |-> "public"]]

ToiletType ==
    [t \in ToiletIds |->
        CASE t = "toilet_001" -> "public"
          [] t = "toilet_002" -> "metro"
          [] OTHER -> "mall"]

ToiletOccupancy ==
    [t \in ToiletIds |->
        CASE t = "toilet_001" -> "low"
          [] t = "toilet_002" -> "high"
          [] OTHER -> "medium"]

\* the timestamp of a review is a datetime, [datetime |-> minutes], until
\* something makes it a string, [iso |-> minutes]
InitialToilets ==
    [t \in ToiletIds |->
        CASE t = "toilet_001" ->
                [status |-> "Clean", hygiene_score |-> 85,
                 last_cleaned |-> -120, cleaner_assigned |-> Cleaner,
                 water_available |-> TRUE, soap_available |-> TRUE,
                 paper_available |-> TRUE,
                 reviews |-> <<[rating |-> 4,
                                timestamp |-> [datetime |-> -1440]]>>]
          [] t = "toilet_002" ->
                [status |-> "Moderate", hygiene_score |-> 45,
                 last_cleaned |-> -360, cleaner_assigned |-> Cleaner,
                 water_available |-> TRUE, soap_available |-> FALSE,
                 paper_available |-> TRUE,
                 reviews |-> << >>]
          [] OTHER ->
                [status |-> "Dirty", hygiene_score |-> 25,
                 last_cleaned |-> -480, cleaner_assigned |-> NoCleaner,
                 water_available |-> FALSE, soap_available |-> FALSE,
                 paper_available |-> FALSE,
                 reviews |-> <<[rating |-> 1,
                                timestamp |-> [datetime |-> -120]]>>]]

Handlers == {1, 2}

Idle == [at |-> "idle"]

\* the handler thread that takes the next request: the threads are
\* interchangeable, so the idle one of lowest number is taken
Free(h) ==
    /\ handlers[h].at = "idle"
    /\ \A g \in Handlers : handlers[g].at = "idle" => h <= g

Response(op, code) == [op |-> op, code |-> code]

(***************************************************************************)
(* Helpers of the simulator.                                               *)
(***************************************************************************)
Max(a, b) == IF a >= b THEN a ELSE b
Min(a, b) == IF a <= b THEN a ELSE b

\* random.randint(lo, hi), sampled at its two ends
Randint(lo, hi) == {lo, hi}

\* occupancy_multiplier, in tenths
occupancy_multiplier(t) ==
    CASE ToiletOccupancy[t] = "high" -> 15
      [] ToiletOccupancy[t] = "medium" -> 10
      [] ToiletOccupancy[t] = "low" -> 7
      [] OTHER -> 10

\* int(random.randint(..) * occupancy_multiplier)
\* a drop that leaves the occupancy out; C19 tells it from ScoreDrop
ScoreDropPlain(r, t) == r

ScoreDrop(r, t) == (r * occupancy_multiplier(t)) \div 10

\* real_time_updates[-50:]
Trim(updates) ==
    IF Len(updates) > LedgerCap
    THEN SubSeq(updates, Len(updates) - LedgerCap + 1, Len(updates))
    ELSE updates

\* the end of a pass of the simulator, the list being `updates`: when
\* len(real_time_updates) > 50 the slice real_time_updates[-50:] is made
\* and the thread stands before the assignment of it to the global name;
\* the slice and the assignment are two steps of the interpreter, with no
\* lock held
EndOfPass(updates) ==
    IF Len(updates) > LedgerCap
    THEN [at |-> "trim", kept |-> Trim(updates)]
    ELSE [at |-> "sleep"]

\* the number of copies the bag B holds of the elements of S
RECURSIVE SumCopies(_, _)
SumCopies(S, B) ==
    IF S = {} THEN 0
    ELSE LET c == CHOOSE x \in S : TRUE
         IN  CopiesIn(c, B) + SumCopies(S \ {c}, B)

\* the completion threads that have written status and not yet the score
MidCompletions ==
    SumCopies({c \in BagToSet(completions) : c.at = "mid"}, completions)

\* transitions begun so far: the updates appended since the clock started
\* and the threads that stand between their first write and their append
Begun ==
    Len(SelectSeq(real_time_updates, LAMBDA u : u.timestamp >= 0))
        + (IF sim.at = "mid" THEN 1 ELSE 0)
        + Cardinality({h \in Handlers : handlers[h].at # "idle"})
        + MidCompletions

Update(tid, prev, new, score, type, who) ==
    [toilet_id |-> tid, previous_status |-> prev, new_status |-> new,
     new_score |-> score, timestamp |-> now, type |-> type,
     cleaner_email |-> who]


(***************************************************************************)
(* simulate_real_time_updates: one pass of the loop is two steps, because  *)
(* no lock is held between the write of hygiene_score and the write of     *)
(* status: SimXxx draws and writes the score, SimCommit writes the rest.   *)
(***************************************************************************)
\* a Moderate -> Clean score without its cap; C26 tells it from
\* ModerateToCleanScore
ModerateToCleanUncapped(score, r) == score + r

\* a Dirty -> Moderate score that takes the draw off; C25 tells it from
\* DirtyToModerateScore
DirtyToModerateLowered(score, r) == Min(60, score - r)

CleanToModerateScore(score, r, t) == Max(50, score - ScoreDrop(r, t))
ModerateToCleanScore(score, r) == Min(95, score + r)
ModerateToDirtyScore(score, r, t) == Max(10, score - ScoreDrop(r, t))
DirtyToModerateScore(score, r) == Min(60, score + r)
DirtyToCleanScore(score, r) == Min(90, score + r)

SimWriteScore(t, branch, score) ==
    /\ toilets_data' = [toilets_data EXCEPT ![t].hygiene_score = score]
    /\ sim' = [at |-> "mid", toilet_id |-> t, branch |-> branch]
    /\ UNCHANGED <<real_time_updates, handlers, last_response, completions, now>>
    /\ UNCHANGED dualVars

\* a first branch that also takes a toilet that is being cleaned; C24 tells
\* it from SimCleanToModerate
SimCleaningToModerate(t) ==
    /\ sim.at = "sleep"
    /\ Begun < MaxUpdates
    /\ toilets_data[t].status \in {"Clean", "In Progress"}
    /\ \E r \in Randint(8, 20) :
          SimWriteScore(t, "C2M",
              CleanToModerateScore(toilets_data[t].hygiene_score, r, t))

\* Clean, and random.random() < effective_degradation
SimCleanToModerate(t) ==
    /\ sim.at = "sleep"
    /\ Begun < MaxUpdates
    /\ toilets_data[t].status = "Clean"
    /\ \E r \in Randint(8, 20) :
          SimWriteScore(t, "C2M",
              CleanToModerateScore(toilets_data[t].hygiene_score, r, t))

\* Moderate, random.random() < effective_degradation * 1.2, then < 0.4
SimModerateToClean(t) ==
    /\ sim.at = "sleep"
    /\ Begun < MaxUpdates
    /\ toilets_data[t].status = "Moderate"
    /\ \E r \in Randint(25, 45) :
          SimWriteScore(t, "M2C",
              ModerateToCleanScore(toilets_data[t].hygiene_score, r))

\* Moderate, random.random() < effective_degradation * 1.2, then >= 0.4
SimModerateToDirty(t) ==
    /\ sim.at = "sleep"
    /\ Begun < MaxUpdates
    /\ toilets_data[t].status = "Moderate"
    /\ \E r \in Randint(15, 35) :
          SimWriteScore(t, "M2D",
              ModerateToDirtyScore(toilets_data[t].hygiene_score, r, t))

\* Dirty, random.random() < 0.08, then < 0.7
SimDirtyToModerate(t) ==
    /\ sim.at = "sleep"
    /\ Begun < MaxUpdates
    /\ toilets_data[t].status = "Dirty"
    /\ \E r \in Randint(15, 30) :
          SimWriteScore(t, "D2M",
              DirtyToModerateScore(toilets_data[t].hygiene_score, r))

\* Dirty, random.random() < 0.08, then >= 0.7
SimDirtyToClean(t) ==
    /\ sim.at = "sleep"
    /\ Begun < MaxUpdates
    /\ toilets_data[t].status = "Dirty"
    /\ \E r \in Randint(30, 50) :
          SimWriteScore(t, "D2C",
              DirtyToCleanScore(toilets_data[t].hygiene_score, r))

\* the draw fails, or the status is none of Clean, Moderate, Dirty: only
\* the trimming at the end of the pass runs
SimNoChange(t) ==
    /\ sim.at = "sleep"
    /\ sim' = EndOfPass(real_time_updates)
    /\ UNCHANGED <<toilets_data, real_time_updates, handlers, last_response,
                   completions, now>>
    /\ UNCHANGED dualVars

\* the status a branch writes
BranchStatus(branch) ==
    CASE branch = "C2M" -> "Moderate"
      [] branch = "M2C" -> "Clean"
      [] branch = "M2D" -> "Dirty"
      [] branch = "D2M" -> "Moderate"
      [] OTHER -> "Clean"

\* the previous_status literal a branch puts into its update
BranchPrevious(branch) ==
    CASE branch \in {"C2M"} -> "Clean"
      [] branch \in {"M2C", "M2D"} -> "Moderate"
      [] OTHER -> "Dirty"

BranchType(branch) ==
    IF branch \in {"M2C", "D2C"} THEN "cleaned" ELSE "status_change"

\* the amenities a branch can leave, given the ones it finds
BranchAmenities(branch, old) ==
    CASE branch = "C2M" ->
            {[water_available |-> old.water_available,
              soap_available |-> s, paper_available |-> p] :
                s \in {old.soap_available, FALSE},
                p \in {old.paper_available, FALSE}}
      [] branch = "M2D" ->
            {[water_available |-> w,
              soap_available |-> FALSE, paper_available |-> p] :
                w \in {old.water_available, FALSE},
                p \in {old.paper_available, FALSE}}
      [] branch = "D2M" ->
            {[water_available |-> TRUE,
              soap_available |-> s,
              paper_available |-> old.paper_available] :
                s \in {old.soap_available, TRUE}}
      [] OTHER ->
            {[water_available |-> TRUE, soap_available |-> TRUE,
              paper_available |-> TRUE]}

SimCommit ==
    /\ sim.at = "mid"
    /\ LET t == sim.toilet_id
           b == sim.branch
           old == toilets_data[t]
       IN  \E am \in BranchAmenities(b, old) :
             /\ toilets_data' = [toilets_data EXCEPT ![t] =
                   [old EXCEPT !.status = BranchStatus(b),
                               !.last_cleaned =
                                   IF b \in {"M2C", "D2C"} THEN now ELSE @,
                               !.water_available = am.water_available,
                               !.soap_available = am.soap_available,
                               !.paper_available = am.paper_available]]
             /\ real_time_updates' = Append(real_time_updates,
                   Update(t, BranchPrevious(b), BranchStatus(b),
                          old.hygiene_score, BranchType(b), "system"))
    /\ sim' = EndOfPass(real_time_updates')
    /\ UNCHANGED <<handlers, last_response, completions, now>>
    /\ UNCHANGED dualVars

\* real_time_updates = <the slice>: the global name is bound to the slice
\* made before
SimTrimStore ==
    /\ sim.at = "trim"
    /\ real_time_updates' = sim.kept
    /\ sim' = [at |-> "sleep"]
    /\ UNCHANGED <<toilets_data, handlers, last_response, completions, now>>
    /\ UNCHANGED dualVars

simulate_real_time_updates ==
    \/ \E t \in ToiletIds : SimCleanToModerate(t)
    \/ \E t \in ToiletIds : SimModerateToClean(t)
    \/ \E t \in ToiletIds : SimModerateToDirty(t)
    \/ \E t \in ToiletIds : SimDirtyToModerate(t)
    \/ \E t \in ToiletIds : SimDirtyToClean(t)
    \/ \E t \in ToiletIds : SimNoChange(t)
    \/ SimCommit

(***************************************************************************)
(* update_toilet_status (POST /api/toilets/<id>/update-status).            *)
(***************************************************************************)
ValidStatuses == {"Clean", "Moderate", "Dirty"}

\* the answers of the handlers that are no success
ErrorCodes == {400, 403, 404}

\* request bodies: with or without 'status', with or without 'hygiene_score'
UpdateBodies ==
    {[status |-> s] : s \in ValidStatuses \cup {"In Progress"}}
        \cup {[status |-> "Clean", hygiene_score |-> 90],
              [status |-> "Moderate", hygiene_score |-> 0],
              [status |-> "Dirty", hygiene_score |-> 150],
              [hygiene_score |-> 90]}

\* the error the checks of update_toilet_status answer with, 0 when none
UpdateStatusError(user, tid, data) ==
    IF users_db[user].role \notin {"cleaner", "admin"} THEN 403
    ELSE IF "status" \notin DOMAIN data \/ data.status \notin ValidStatuses
         THEN 400
    ELSE IF tid \notin ToiletIds THEN 404
    ELSE 0

\* the errors update_toilet_status answers some request with
UpdateStatusErrors ==
    {UpdateStatusError(user, tid, data) :
        user \in Users, tid \in RequestIds, data \in UpdateBodies} \ {0}

\* some request is answered with the error `code`
UpdateStatusReject(h, code) ==
    /\ Free(h)
    /\ code \in UpdateStatusErrors
    /\ handlers' = [handlers EXCEPT ![h] = Idle]
    /\ last_response' = Response("update_status", code)
    /\ UNCHANGED <<toilets_data, real_time_updates, sim, completions, now>>
    /\ UNCHANGED dualVars

\* the checks pass; previous_status is kept and status is written
UpdateStatusBegin(h, user, tid, data) ==
    /\ Free(h)
    /\ Begun < MaxUpdates
    /\ UpdateStatusError(user, tid, data) = 0
    /\ toilets_data' = [toilets_data EXCEPT ![tid].status = data.status]
    /\ handlers' = [handlers EXCEPT ![h] =
          [at |-> "update_mid", toilet_id |-> tid, user |-> user,
           data |-> data, previous_status |-> toilets_data[tid].status]]
    /\ UNCHANGED <<real_time_updates, sim, last_response, completions, now>>
    /\ UNCHANGED dualVars

\* hygiene_score or toilet['hygiene_score']
ScoreOr(data, old) ==
    IF "hygiene_score" \in DOMAIN data /\ data.hygiene_score # 0
    THEN data.hygiene_score
    ELSE old

\* the score, the stamps and the assignment are written, the update is
\* appended and the request is answered
UpdateStatusEnd(h) ==
    /\ handlers[h].at = "update_mid"
    /\ LET rq == handlers[h]
           t == rq.toilet_id
           score == ScoreOr(rq.data, toilets_data[t].hygiene_score)
       IN  /\ toilets_data' = [toilets_data EXCEPT ![t] =
                 [@ EXCEPT !.hygiene_score = score,
                           !.last_cleaned = now,
                           !.cleaner_assigned = rq.user]]
           /\ real_time_updates' = Append(real_time_updates,
                 Update(t, rq.previous_status, rq.data.status, score,
                        "cleaned", rq.user))
    /\ handlers' = [handlers EXCEPT ![h] = Idle]
    /\ last_response' = Response("update_status", 200)
    /\ UNCHANGED <<sim, completions, now>>
    /\ UNCHANGED dualVars

update_toilet_status(h) ==
    \/ \E code \in ErrorCodes : UpdateStatusReject(h, code)
    \/ \E u \in Users, tid \in RequestIds, d \in UpdateBodies :
          UpdateStatusBegin(h, u, tid, d)
    \/ UpdateStatusEnd(h)

(***************************************************************************)
(* start_cleaning (POST /api/staff/start-cleaning) and the completion      *)
(* threads it spawns.                                                      *)
(***************************************************************************)
\* request bodies: with 'toilet_id' or without
StartBodies == {[toilet_id |-> i] : i \in RequestIds} \cup {[other |-> "x"]}

\* the error the checks of start_cleaning answer with, 0 when none
StartCleaningError(user, data) ==
    IF users_db[user].role # "cleaner" THEN 403
    ELSE IF "toilet_id" \notin DOMAIN data THEN 400
    ELSE IF data.toilet_id \notin ToiletIds THEN 404
    ELSE IF toilets_data[data.toilet_id].cleaner_assigned # user THEN 403
    ELSE 0

\* the errors start_cleaning answers some request with in this state
StartCleaningErrors ==
    {StartCleaningError(user, data) :
        user \in Users, data \in StartBodies} \ {0}

\* some request is answered with the error `code`
StartCleaningReject(h, code) ==
    /\ Free(h)
    /\ code \in StartCleaningErrors
    /\ handlers' = [handlers EXCEPT ![h] = Idle]
    /\ last_response' = Response("start_cleaning", code)
    /\ UNCHANGED <<toilets_data, real_time_updates, sim, completions, now>>
    /\ UNCHANGED dualVars

\* the checks pass and status is written
StartCleaningBegin(h, user, data) ==
    /\ Free(h)
    /\ Begun < MaxUpdates
    /\ StartCleaningError(user, data) = 0
    /\ toilets_data' = [toilets_data EXCEPT
                           ![data.toilet_id].status = "In Progress"]
    /\ handlers' = [handlers EXCEPT ![h] =
          [at |-> "start_mid", toilet_id |-> data.toilet_id, user |-> user]]
    /\ UNCHANGED <<real_time_updates, sim, last_response, completions, now>>
    /\ UNCHANGED dualVars

\* a completion thread that has not yet woken from time.sleep(30)
Sleeping(t, user) == [toilet_id |-> t, user |-> user, at |-> "sleep"]

\* the threads one start_cleaning starts: completion_thread.start() is
\* called on two Thread objects
SpawnedCompletions(t, user) ==
    SetToBag({Sleeping(t, user)}) (+) SetToBag({Sleeping(t, user)})

\* the score is written, the update is appended (its previous_status is
\* read from the toilet), the completion threads are started and the
\* request is answered
StartCleaningEnd(h) ==
    /\ handlers[h].at = "start_mid"
    /\ LET rq == handlers[h]
           t == rq.toilet_id
       IN  /\ toilets_data' = [toilets_data EXCEPT
                                  ![t].hygiene_score = CleaningScore]
           /\ real_time_updates' = Append(real_time_updates,
                 Update(t, toilets_data[t].status, "In Progress",
                        CleaningScore, "cleaning_started", rq.user))
           /\ completions' = completions (+) SpawnedCompletions(t, rq.user)
    /\ handlers' = [handlers EXCEPT ![h] = Idle]
    /\ last_response' = Response("start_cleaning", 200)
    /\ UNCHANGED <<sim, now>>
    /\ UNCHANGED dualVars

start_cleaning(h) ==
    \/ \E code \in ErrorCodes : StartCleaningReject(h, code)
    \/ \E u \in Users, d \in StartBodies : StartCleaningBegin(h, u, d)
    \/ StartCleaningEnd(h)

\* complete_cleaning wakes and writes status
CompleteCleaningWake(c) ==
    /\ c.at = "sleep"
    /\ Begun < MaxUpdates
    /\ toilets_data' = [toilets_data EXCEPT ![c.toilet_id].status = "Clean"]
    /\ completions' = (completions (-) SetToBag({c}))
                          (+) SetToBag({[c EXCEPT !.at = "mid"]})
    /\ UNCHANGED <<real_time_updates, sim, handlers, last_response, now>>
    /\ UNCHANGED dualVars

\* complete_cleaning writes the score and the stamp, appends its update
\* and ends
CompleteCleaningFinish(c) ==
    /\ c.at = "mid"
    /\ \E score \in Randint(80, 95) :
          /\ toilets_data' = [toilets_data EXCEPT ![c.toilet_id] =
                [@ EXCEPT !.hygiene_score = score, !.last_cleaned = now]]
          /\ real_time_updates' = Append(real_time_updates,
                Update(c.toilet_id, "In Progress", "Clean", score,
                       "cleaned", c.user))
    /\ completions' = completions (-) SetToBag({c})
    /\ UNCHANGED <<sim, handlers, last_response, now>>
    /\ UNCHANGED dualVars

complete_cleaning ==
    \/ \E c \in BagToSet(completions) : CompleteCleaningWake(c)
    \/ \E c \in BagToSet(completions) : CompleteCleaningFinish(c)

(***************************************************************************)
(* The staff service (staff_app) and the public service (public_app).      *)
(* toilets_data.json and staff_data.json are data files; the staff service *)
(* is started on the toilets the combined service lists.                   *)
(***************************************************************************)
Supervisor == "supervisor@example.com"

StaffUsers == {Cleaner, Supervisor}

ToiletName ==
    [toilet_001 |-> "Central Park Public Toilet",
     toilet_002 |-> "Metro Station Toilet",
     toilet_003 |-> "Shopping Mall Restroom"]

InitialStaffToilets ==
    [t \in ToiletIds |->
        [name |-> ToiletName[t],
         status |-> InitialToilets[t].status,
         hygiene_score |-> InitialToilets[t].hygiene_score,
         last_cleaned |-> InitialToilets[t].last_cleaned,
         cleaner_assigned |-> InitialToilets[t].cleaner_assigned]]

\* the staff handler thread that takes the next request
StaffFree(h) ==
    /\ staff_handlers[h].at = "idle"
    /\ \A g \in Handlers : staff_handlers[g].at = "idle" => h <= g

\* datetime.isoformat() and datetime.fromisoformat()
isoformat(t) == [iso |-> t]
fromisoformat(str) == str.iso

\* the error the checks of start_cleaning and complete_cleaning of the
\* staff service answer with, 0 when none
StaffError(user, tid) ==
    IF tid \notin ToiletIds THEN 404
    ELSE IF staff_toilets_data[tid].cleaner_assigned # user THEN 403
    ELSE 0

StaffErrors ==
    {StaffError(user, tid) : user \in StaffUsers, tid \in RequestIds} \ {0}

\* some start-cleaning or complete-cleaning request is answered with an error
StaffReject(h, op, code) ==
    /\ StaffFree(h)
    /\ code \in StaffErrors
    /\ staff_response' = Response(op, code)
    /\ UNCHANGED <<staff_toilets_data, staff_updates, staff_handlers, next_id,
                   push_log, public_updates, last_pull, now>>
    /\ UNCHANGED combinedVars

StaffUpdate(id, tid, type, prev, new, score, who) ==
    [id |-> id, toilet_id |-> tid, toilet_name |-> staff_toilets_data[tid].name,
     type |-> type, previous_status |-> prev,
     new_status |-> new, new_score |-> score, cleaner_name |-> who,
     timestamp |-> now]

\* start_cleaning of the staff service up to its call of
\* send_update_to_public
StaffStartCleaning(h, user, tid) ==
    /\ StaffFree(h)
    /\ Len(staff_updates) < MaxStaffUpdates
    /\ StaffError(user, tid) = 0
    /\ LET update == StaffUpdate(next_id + 1, tid, "cleaning_started",
                         staff_toilets_data[tid].status,
                         "Cleaning in Progress",
                         staff_toilets_data[tid].hygiene_score, user)
       IN  /\ staff_toilets_data' = [staff_toilets_data EXCEPT
                 ![tid].status = "Cleaning in Progress"]
           /\ staff_updates' = Append(staff_updates, update)
           /\ staff_handlers' = [staff_handlers EXCEPT ![h] =
                 [at |-> "push", op |-> "start_cleaning", update |-> update]]
    /\ next_id' = next_id + 1
    /\ UNCHANGED <<staff_response, push_log, public_updates, last_pull, now>>
    /\ UNCHANGED combinedVars

\* complete_cleaning of the staff service up to its call of
\* send_update_to_public
StaffCompleteCleaning(h, user, tid) ==
    /\ StaffFree(h)
    /\ Len(staff_updates) < MaxStaffUpdates
    /\ StaffError(user, tid) = 0
    /\ \E score \in Randint(85, 100) :
          LET update == StaffUpdate(next_id + 1, tid, "cleaning_completed",
                            staff_toilets_data[tid].status, "Clean",
                            score, user)
          IN  /\ staff_toilets_data' = [staff_toilets_data EXCEPT ![tid] =
                    [@ EXCEPT !.status = "Clean", !.hygiene_score = score,
                              !.last_cleaned = now]]
              /\ staff_updates' = Append(staff_updates, update)
              /\ staff_handlers' = [staff_handlers EXCEPT ![h] =
                    [at |-> "push", op |-> "complete_cleaning",
                     update |-> update]]
    /\ next_id' = next_id + 1
    /\ UNCHANGED <<staff_response, push_log, public_updates, last_pull, now>>
    /\ UNCHANGED combinedVars

\* update_payload of send_update_to_public: the update without its id, the
\* timestamp as a string
UpdatePayload(update) ==
    [toilet_id |-> update.toilet_id, toilet_name |-> update.toilet_name,
     type |-> update.type, previous_status |-> update.previous_status,
     new_status |-> update.new_status, new_score |-> update.new_score,
     cleaner_name |-> update.cleaner_name,
     timestamp |-> isoformat(update.timestamp)]

\* what one requests.post(..., timeout=5) can come to:
\*   ok        the webhook ran and its 200 arrived
\*   refused   the public service is not reachable, nothing was delivered
\*   timeout   no answer within 5 seconds, nothing was delivered
\*   late      the webhook ran, its answer did not arrive within 5 seconds
\*   status    an answer other than 200 arrived, nothing was stored
PushOutcomes == {"ok", "refused", "timeout", "late", "status"}

FailedOutcomes == PushOutcomes \ {"ok"}

\* the fields receive_update requires
required_fields ==
    {"toilet_id", "toilet_name", "type", "previous_status", "new_status",
     "timestamp"}

\* receive_update (POST /api/webhook/update) of the public service: the
\* answer and the list of updates it leaves
receive_update(data, updates) ==
    IF ~(required_fields \subseteq DOMAIN data)
    THEN [code |-> 400, updates |-> updates]
    ELSE [code |-> 200,
          updates |-> Append(updates,
              [id |-> Len(updates) + 1,
               toilet_id |-> data.toilet_id,
               toilet_name |-> data.toilet_name, type |-> data.type,
               previous_status |-> data.previous_status,
               new_status |-> data.new_status,
               new_score |-> IF "new_score" \in DOMAIN data
                             THEN data.new_score ELSE 0,
               cleaner_name |-> IF "cleaner_name" \in DOMAIN data
                                THEN data.cleaner_name ELSE "Unknown",
               timestamp |-> fromisoformat(data.timestamp)])]

\* a handler that posts again after a failed post; C10 tells it from AfterPush
AfterPushRetry(rq, outcome) ==
    IF outcome \in FailedOutcomes THEN rq ELSE Idle

\* a handler whose post is not wrapped in try/except, so that a failed post
\* ends in the handler's own except clause; C9 tells it from AnswerAfterPush
AnswerUncaught(rq, outcome) ==
    IF outcome \in {"refused", "timeout", "late"} THEN 500 ELSE 200

\* the position of the handler after send_update_to_public returned: the
\* post is made once, whatever came of it
AfterPush(rq, outcome) == Idle

\* the answer of the handler after send_update_to_public returned: every
\* exception of the post is caught inside it
AnswerAfterPush(rq, outcome) == 200

\* send_update_to_public and the rest of the handler that called it
send_update_to_public(h, outcome) ==
    /\ staff_handlers[h].at = "push"
    /\ LET rq == staff_handlers[h]
       IN  /\ push_log' = Append(push_log,
                 [update_id |-> rq.update.id, outcome |-> outcome])
           /\ public_updates' =
                 IF outcome \in {"ok", "late"}
                 THEN receive_update(UpdatePayload(rq.update),
                                     public_updates).updates
                 ELSE public_updates
           /\ staff_handlers' = [staff_handlers EXCEPT
                 ![h] = AfterPush(rq, outcome)]
           /\ staff_response' =
                 IF AfterPush(rq, outcome) = Idle
                 THEN Response(rq.op, AnswerAfterPush(rq, outcome))
                 ELSE staff_response
    /\ UNCHANGED <<staff_toilets_data, staff_updates, next_id, last_pull, now>>
    /\ UNCHANGED combinedVars

(***************************************************************************)
(* The pull path: sync_with_public (GET /api/sync/public) of the staff     *)
(* service, and sync_with_staff_interface of the public service that       *)
(* calls it.                                                               *)
(***************************************************************************)
LastOf(updates, n) ==
    IF Len(updates) > n
    THEN SubSeq(updates, Len(updates) - n + 1, Len(updates))
    ELSE updates

\* a window test with the comparison turned round; C12 tells it from
\* WithinSyncWindow
OutsideSyncWindow(update) == now - update.timestamp > SyncWindow

WithinSyncWindow(update) == now - update.timestamp <= SyncWindow

\* the 'updates' of the answer of sync_with_public
sync_with_public(updates) ==
    LET recent == SelectSeq(LastOf(updates, SyncCount), WithinSyncWindow)
    IN  [i \in 1..Len(recent) |-> UpdatePayload(recent[i])]

\* the loop of sync_with_staff_interface: every update of the answer is
\* appended under a new id, whether or not the list already holds it
RECURSIVE AppendPulled(_, _)
AppendPulled(updates, pulled) ==
    IF pulled = << >> THEN updates
    ELSE AppendPulled(
             Append(updates,
                 [id |-> Len(updates) + 1,
                  toilet_id |-> Head(pulled).toilet_id,
                  toilet_name |-> Head(pulled).toilet_name,
                  type |-> Head(pulled).type,
                  previous_status |-> Head(pulled).previous_status,
                  new_status |-> Head(pulled).new_status,
                  new_score |-> IF "new_score" \in DOMAIN Head(pulled)
                                THEN Head(pulled).new_score ELSE 0,
                  cleaner_name |-> IF "cleaner_name" \in DOMAIN Head(pulled)
                                   THEN Head(pulled).cleaner_name
                                   ELSE "Unknown",
                  timestamp |-> fromisoformat(Head(pulled).timestamp)]),
             Tail(pulled))

\* what the requests.get of sync_with_staff_interface can come to: an answer
\* with status 200, or no such answer (any exception is caught and printed)
PullOutcomes == {"ok", "failed"}

sync_with_staff_interface(outcome) ==
    /\ Len(public_updates) < MaxPublicUpdates
    /\ public_updates' =
          IF outcome = "ok"
          THEN AppendPulled(public_updates, sync_with_public(staff_updates))
          ELSE public_updates
    /\ last_pull' =
          [outcome |-> outcome, at |-> now,
           updates |-> IF outcome = "ok" THEN sync_with_public(staff_updates)
                       ELSE << >>]
    /\ UNCHANGED <<staff_toilets_data, staff_updates, staff_handlers,
                   staff_response, next_id, push_log, now>>
    /\ UNCHANGED combinedVars

(***************************************************************************)
(* Posts to the webhook of the public service by any client: the route     *)
(* asks for no token.                                                      *)
(***************************************************************************)
FullPayload ==
    [toilet_id |-> "toilet_001", toilet_name |-> ToiletName["toilet_001"],
     type |-> "cleaning_completed", previous_status |-> "Dirty",
     new_status |-> "Clean", new_score |-> 90,
     cleaner_name |-> Cleaner, timestamp |-> isoformat(0)]

Without(data, field) == [f \in DOMAIN data \ {field} |-> data[f]]

\* the full payload, and the full payload less one of its fields
WebhookPayloads ==
    {FullPayload} \cup {Without(FullPayload, f) : f \in DOMAIN FullPayload}

WebhookPost(data) ==
    /\ Len(public_updates) < MaxPublicUpdates
    /\ public_updates' = receive_update(data, public_updates).updates
    /\ UNCHANGED <<staff_toilets_data, staff_updates, staff_handlers,
                   staff_response, next_id, push_log, last_pull, now>>
    /\ UNCHANGED combinedVars

(***************************************************************************)
(* The read requests of the staff service: calculate_urgency_score,        *)
(* get_priority_level, get_staff_priority_toilets, get_staff_tasks.        *)
(***************************************************************************)
StaffStatuses ==
    {"Clean", "Moderate", "Dirty", "Needs Cleaning", "Cleaning in Progress"}

\* a score function that counts a toilet cleaned exactly 8 (4) hours ago as
\* cleaned more than 8 (4) hours ago; C15 tells it from
\* calculate_urgency_score
UrgencyInclusiveHours(toilet) ==
    Min(100,
        (CASE toilet.status = "Dirty" -> 50
           [] toilet.status = "Needs Cleaning" -> 30
           [] toilet.status = "Moderate" -> 10
           [] OTHER -> 0)
        + (IF toilet.hygiene_score < 50 THEN 30
           ELSE IF toilet.hygiene_score < 70 THEN 20 ELSE 0)
        + (IF now - toilet.last_cleaned >= 8 * 60 THEN 20
           ELSE IF now - toilet.last_cleaned >= 4 * 60 THEN 10 ELSE 0))

\* a score function with the points of the two hygiene_score bands
\* exchanged; C16 tells it from calculate_urgency_score
UrgencyBandsExchanged(toilet) ==
    Min(100,
        (CASE toilet.status = "Dirty" -> 50
           [] toilet.status = "Needs Cleaning" -> 30
           [] toilet.status = "Moderate" -> 10
           [] OTHER -> 0)
        + (IF toilet.hygiene_score < 50 THEN 20
           ELSE IF toilet.hygiene_score < 70 THEN 30 ELSE 0)
        + (IF now - toilet.last_cleaned > 8 * 60 THEN 20
           ELSE IF now - toilet.last_cleaned > 4 * 60 THEN 10 ELSE 0))

\* time_since_cleaned is in hours as a float; x minutes / 60 > 8 is
\* x > 8 * 60
calculate_urgency_score(toilet) ==
    Min(100,
        (CASE toilet.status = "Dirty" -> 50
           [] toilet.status = "Needs Cleaning" -> 30
           [] toilet.status = "Moderate" -> 10
           [] OTHER -> 0)
        + (IF toilet.hygiene_score < 50 THEN 30
           ELSE IF toilet.hygiene_score < 70 THEN 20 ELSE 0)
        + (IF now - toilet.last_cleaned > 8 * 60 THEN 20
           ELSE IF now - toilet.last_cleaned > 4 * 60 THEN 10 ELSE 0))

get_priority_level(urgency_score) ==
    IF urgency_score >= 70 THEN "high"
    ELSE IF urgency_score >= 40 THEN "medium"
    ELSE "low"

\* list.sort(key=...): a stable sort by the number in the field 'key'
InsertByKey(sorted, x) ==
    LET k == Cardinality({i \in 1..Len(sorted) : sorted[i].key <= x.key})
    IN  SubSeq(sorted, 1, k) \o <<x>> \o SubSeq(sorted, k + 1, Len(sorted))

RECURSIVE SortByKey(_)
SortByKey(seq) ==
    IF seq = << >> THEN << >>
    ELSE InsertByKey(SortByKey(SubSeq(seq, 1, Len(seq) - 1)), seq[Len(seq)])

\* the list toilets_data holds the toilets in this order
ToiletOrder == <<"toilet_001", "toilet_002", "toilet_003">>

\* the ids of the toilets assigned to the user, in the order of the list
AssignedIn(data, user) ==
    SelectSeq(ToiletOrder, LAMBDA t : data[t].cleaner_assigned = user)

\* the entry of get_staff_priority_toilets for toilet t; sorted by
\* urgency_score with reverse=True, which keeps equal entries in their order
StaffToiletInfo(t) ==
    LET toilet == staff_toilets_data[t]
        urgency_score == calculate_urgency_score(toilet)
    IN  [id |-> t, status |-> toilet.status,
         hygiene_score |-> toilet.hygiene_score,
         urgency_score |-> urgency_score,
         priority |-> get_priority_level(urgency_score),
         key |-> 0 - urgency_score]

get_staff_priority_toilets(user) ==
    /\ \A h \in Handlers : staff_handlers[h] = Idle
    /\ LET ids == AssignedIn(staff_toilets_data, user)
           infos == [i \in 1..Len(ids) |-> StaffToiletInfo(ids[i])]
           needing == SelectSeq(infos, LAMBDA x : x.urgency_score > 0)
       IN  staff_response' =
              [op |-> "priority_toilets", code |-> 200, user |-> user,
               toilets |-> SortByKey(needing)]
    /\ UNCHANGED <<staff_toilets_data, staff_updates, staff_handlers, next_id,
                   push_log, public_updates, last_pull, now>>
    /\ UNCHANGED combinedVars

\* the task of get_staff_tasks of the staff service for toilet t
StaffTask(t) ==
    LET toilet == staff_toilets_data[t]
    IN  [toilet_id |-> t,
         status |-> IF toilet.status \in {"Dirty", "Needs Cleaning"}
                    THEN "pending" ELSE "completed",
         priority |-> get_priority_level(calculate_urgency_score(toilet))]

staff_get_staff_tasks(user) ==
    /\ \A h \in Handlers : staff_handlers[h] = Idle
    /\ LET ids == AssignedIn(staff_toilets_data, user)
       IN  staff_response' =
              [op |-> "tasks", code |-> 200, user |-> user,
               tasks |-> [i \in 1..Len(ids) |-> StaffTask(ids[i])]]
    /\ UNCHANGED <<staff_toilets_data, staff_updates, staff_handlers, next_id,
                   push_log, public_updates, last_pull, now>>
    /\ UNCHANGED combinedVars

\* toilets the staff service can hold: toilet_001 in any status, with any
\* hygiene_score, last cleaned any whole number of hours ago
StaffToiletsDrawn ==
    {[InitialStaffToilets EXCEPT !["toilet_001"] =
          [@ EXCEPT !.status = st, !.hygiene_score = sc,
                    !.last_cleaned = 0 - 60 * hr]] :
        st \in StaffStatuses, sc \in 0..100, hr \in 0..MaxHours}

(***************************************************************************)
(* get_staff_tasks (GET /api/staff/tasks) of the combined service, with    *)
(* calculate_priority.                                                     *)
(***************************************************************************)
calculate_priority(toilet) ==
    IF toilet.hygiene_score < 30 \/ now - toilet.last_cleaned > 8 * 60
    THEN "high"
    ELSE IF toilet.hygiene_score < 60 \/ now - toilet.last_cleaned > 4 * 60
    THEN "medium"
    ELSE "low"

StatusRank(status) ==
    CASE status = "in_progress" -> 0
      [] status = "pending" -> 1
      [] OTHER -> 2

PriorityRank(priority) ==
    CASE priority = "high" -> 3
      [] priority = "medium" -> 2
      [] OTHER -> 1

\* the task for toilet t; its sort key is the pair (rank of the status,
\* rank of the priority), compared as Python compares tuples: the priority
\* rank is below 10
Task(t) ==
    LET toilet == toilets_data[t]
        priority == calculate_priority(toilet)
        status == IF toilet.status = "Dirty" /\ priority = "high"
                  THEN "in_progress"
                  ELSE IF toilet.status = "Clean" THEN "completed"
                  ELSE "pending"
    IN  [toilet_id |-> t, priority |-> priority, status |-> status,
         key |-> 10 * StatusRank(status) + PriorityRank(priority)]

get_staff_tasks(user) ==
    /\ \A h \in Handlers : handlers[h] = Idle
    /\ sim.at = "sleep"
    /\ IF users_db[user].role # "cleaner"
       THEN last_response' = Response("tasks", 403)
       ELSE LET ids == AssignedIn(toilets_data, user)
            IN  last_response' =
                   [op |-> "tasks", code |-> 200, user |-> user,
                    tasks |-> SortByKey([i \in 1..Len(ids) |-> Task(ids[i])])]
    /\ UNCHANGED <<toilets_data, real_time_updates, sim, handlers,
                   completions, now>>
    /\ UNCHANGED dualVars

(***************************************************************************)
(* get_real_time_updates (GET /api/updates): the last 15 updates, each     *)
(* copied with its timestamp made a string; nothing is filtered by age.    *)
(***************************************************************************)
get_real_time_updates(updates) ==
    IF Len(updates) > RecentCount
    THEN SubSeq(updates, Len(updates) - RecentCount + 1, Len(updates))
    ELSE updates

(***************************************************************************)
(* The other read requests of the combined service: get_toilets            *)
(* (GET /api/toilets), get_toilet_details (GET /api/toilets/<id>) and      *)
(* get_real_time_updates (GET /api/updates).                               *)
(***************************************************************************)
\* the timestamp of a review as get_toilets leaves it: isoformat() of a
\* datetime, str() of anything else
ReviewStamp(timestamp) ==
    IF "datetime" \in DOMAIN timestamp
    THEN isoformat(timestamp.datetime)
    ELSE timestamp

\* the reviews after the loop of get_toilets over toilet_copy['reviews']
StampedReviews(reviews) ==
    [i \in 1..Len(reviews) |->
        [reviews[i] EXCEPT !.timestamp = ReviewStamp(@)]]

\* toilet.copy() is a shallow copy: toilet_copy['reviews'] is the list the
\* toilet holds and its items are the reviews the toilet holds, so the
\* assignment to review['timestamp'] is made in the stored review; the
\* assignments to toilet_copy[...] are made in the copy
get_toilets(user) ==
    /\ \A h \in Handlers : handlers[h] = Idle
    /\ sim.at = "sleep"
    /\ toilets_data' =
          [t \in ToiletIds |->
              [toilets_data[t] EXCEPT !.reviews = StampedReviews(@)]]
    /\ last_response' =
          [op |-> "toilets", code |-> 200,
           toilets |->
              [i \in 1..Len(ToiletOrder) |->
                  [toilets_data'[ToiletOrder[i]] EXCEPT
                      !.last_cleaned = isoformat(@)]]]
    /\ UNCHANGED <<real_time_updates, sim, handlers, completions, now>>
    /\ UNCHANGED dualVars

get_toilet_details(user, tid) ==
    /\ \A h \in Handlers : handlers[h] = Idle
    /\ sim.at = "sleep"
    /\ last_response' =
          IF tid \notin ToiletIds THEN Response("toilet", 404)
          ELSE [op |-> "toilet", code |-> 200,
                toilet |-> [toilets_data[tid] EXCEPT
                               !.last_cleaned = isoformat(@)]]
    /\ UNCHANGED <<toilets_data, real_time_updates, sim, handlers,
                   completions, now>>
    /\ UNCHANGED dualVars

\* the answer of get_real_time_updates: the last 15 updates, each a copy
\* with its timestamp made a string
get_updates(user) ==
    /\ \A h \in Handlers : handlers[h] = Idle
    /\ sim.at = "sleep"
    /\ LET recent == get_real_time_updates(real_time_updates)
       IN  last_response' =
              [op |-> "updates", code |-> 200,
               updates |-> [i \in 1..Len(recent) |->
                               [recent[i] EXCEPT !.timestamp = isoformat(@)]],
               total_updates |-> Len(real_time_updates)]
    /\ UNCHANGED <<toilets_data, real_time_updates, sim, handlers,
                   completions, now>>
    /\ UNCHANGED dualVars

\* toilets the combined service can hold: the two toilets assigned to the
\* cleaner in any status, with a low, a middle or a high hygiene_score, last
\* cleaned 2, 6 or 10 hours ago
TaskScores == {25, 45, 85}

TaskHours == {2, 6, 10}

ToiletsDrawn ==
    {[InitialToilets EXCEPT
          !["toilet_001"] = [@ EXCEPT !.status = st1, !.hygiene_score = sc1,
                                      !.last_cleaned = 0 - 60 * hr1],
          !["toilet_002"] = [@ EXCEPT !.status = st2, !.hygiene_score = sc2,
                                      !.last_cleaned = 0 - 60 * hr2]] :
        st1 \in ValidStatuses \cup {"In Progress"}, sc1 \in TaskScores,
        hr1 \in TaskHours,
        st2 \in ValidStatuses \cup {"In Progress"}, sc2 \in TaskScores,
        hr2 \in TaskHours}

(***************************************************************************)
(* The clock, shared by both specifications.                               *)
(***************************************************************************)
AdvanceClock ==
    /\ now + ClockStep <= MaxNow
    /\ now' = now + ClockStep
    /\ UNCHANGED combinedVars
    /\ UNCHANGED dualVars

(***************************************************************************)
(* The combined service.                                                   *)
(***************************************************************************)
InitDual ==
    /\ staff_toilets_data = InitialStaffToilets
    /\ staff_updates = << >>
    /\ staff_handlers = [h \in Handlers |-> Idle]
    /\ staff_response = Response("none", 0)
    /\ next_id = 0
    /\ push_log = << >>
    /\ public_updates = << >>
    /\ last_pull = [outcome |-> "none", at |-> 0, updates |-> << >>]

InitCombined ==
    /\ toilets_data = InitialToilets
    /\ real_time_updates = << >>
    /\ sim = [at |-> "sleep"]
    /\ handlers = [h \in Handlers |-> Idle]
    /\ last_response = Response("none", 0)
    /\ completions = EmptyBag

Init ==
    /\ InitCombined
    /\ now = 0
    /\ InitDual

Next ==
    \/ simulate_real_time_updates
    \/ \E h \in Handlers : update_toilet_status(h)
    \/ \E h \in Handlers : start_cleaning(h)
    \/ complete_cleaning
    \/ AdvanceClock

Spec == Init /\ [][Next]_vars

(***************************************************************************)
(* The staff service and the public service.                               *)
(***************************************************************************)
NextDual ==
    \/ \E h \in Handlers, code \in ErrorCodes :
          StaffReject(h, "start_cleaning", code)
    \/ \E h \in Handlers, code \in ErrorCodes :
          StaffReject(h, "complete_cleaning", code)
    \/ \E h \in Handlers, u \in StaffUsers, tid \in RequestIds :
          StaffStartCleaning(h, u, tid)
    \/ \E h \in Handlers, u \in StaffUsers, tid \in RequestIds :
          StaffCompleteCleaning(h, u, tid)
    \/ \E h \in Handlers, o \in PushOutcomes : send_update_to_public(h, o)
    \/ AdvanceClock

SpecDual == Init /\ [][NextDual]_vars

\* requests.post returns within its timeout of 5 seconds, so a handler that
\* has reached send_update_to_public goes on to answer; when the next
\* request comes is up to the staff
SpecDualFair ==
    /\ SpecDual
    /\ WF_vars(\E h \in Handlers, o \in PushOutcomes :
                  send_update_to_public(h, o))

(***************************************************************************)
(* The two paths from the staff service's list to the public service's:    *)
(* the post after every transition, and the pull.                          *)
(***************************************************************************)
NextSync ==
    \/ \E h \in Handlers, u \in StaffUsers, tid \in RequestIds :
          StaffStartCleaning(h, u, tid)
    \/ \E h \in Handlers, u \in StaffUsers, tid \in RequestIds :
          StaffCompleteCleaning(h, u, tid)
    \/ \E h \in Handlers, o \in PushOutcomes : send_update_to_public(h, o)
    \/ \E o \in PullOutcomes : sync_with_staff_interface(o)
    \/ AdvanceClock

SpecSync == Init /\ [][NextSync]_vars

(***************************************************************************)
(* The webhook of the public service, posted to by the staff service and   *)
(* by any other client.                                                    *)
(***************************************************************************)
NextWebhook ==
    \/ \E h \in Handlers, u \in StaffUsers, tid \in RequestIds :
          StaffStartCleaning(h, u, tid)
    \/ \E h \in Handlers, u \in StaffUsers, tid \in RequestIds :
          StaffCompleteCleaning(h, u, tid)
    \/ \E h \in Handlers, o \in PushOutcomes : send_update_to_public(h, o)
    \/ \E data \in WebhookPayloads : WebhookPost(data)

SpecWebhook == Init /\ [][NextWebhook]_vars

(***************************************************************************)
(* The read requests of the staff service, on any toilet data.             *)
(***************************************************************************)
InitScore ==
    /\ InitCombined
    /\ now = 0
    /\ staff_toilets_data \in StaffToiletsDrawn
    /\ staff_updates = << >>
    /\ staff_handlers = [h \in Handlers |-> Idle]
    /\ staff_response = Response("none", 0)
    /\ next_id = 0
    /\ push_log = << >>
    /\ public_updates = << >>
    /\ last_pull = [outcome |-> "none", at |-> 0, updates |-> << >>]

NextScore ==
    \/ \E u \in StaffUsers : get_staff_priority_toilets(u)
    \/ \E u \in StaffUsers : staff_get_staff_tasks(u)

SpecScore == InitScore /\ [][NextScore]_vars

(***************************************************************************)
(* The task list of the combined service, on any toilet data.              *)
(***************************************************************************)
InitTasks ==
    /\ toilets_data \in ToiletsDrawn
    /\ real_time_updates = << >>
    /\ sim = [at |-> "sleep"]
    /\ handlers = [h \in Handlers |-> Idle]
    /\ last_response = Response("none", 0)
    /\ completions = EmptyBag
    /\ now = 0
    /\ InitDual

NextTasks == \E u \in Users : get_staff_tasks(u)

SpecTasks == InitTasks /\ [][NextTasks]_vars

(***************************************************************************)
(* The read requests of the combined service, on any toilet data.          *)
(***************************************************************************)
NextReads ==
    \/ \E u \in Users : get_toilets(u)
    \/ \E u \in Users, tid \in RequestIds : get_toilet_details(u, tid)
    \/ \E u \in Users : get_staff_tasks(u)
    \/ \E u \in Users : get_updates(u)

SpecReads == InitTasks /\ [][NextReads]_vars

(***************************************************************************)
(* The simulator alone, on any toilet data.                                *)
(***************************************************************************)
\* hygiene scores a toilet can have: the floor of Moderate -> Dirty, the
\* scores of the catalogue and the highest score a request can ask for
\* within [0,100]
SimScores == {10, 25, 50, 85, 100}

SimToiletsDrawn ==
    {[InitialToilets EXCEPT
          ![t] = [@ EXCEPT !.status = st, !.hygiene_score = sc]] :
        t \in ToiletIds, st \in ValidStatuses \cup {"In Progress"},
        sc \in SimScores}

InitSim ==
    /\ toilets_data \in SimToiletsDrawn
    /\ real_time_updates = << >>
    /\ sim = [at |-> "sleep"]
    /\ handlers = [h \in Handlers |-> Idle]
    /\ last_response = Response("none", 0)
    /\ completions = EmptyBag
    /\ now = 0
    /\ InitDual

SpecSim == InitSim /\ [][simulate_real_time_updates]_vars

(***************************************************************************)
(* The combined service after it has run for a while: the list of updates  *)
(* holds LedgerCap updates of earlier passes of the simulator, which took   *)
(* toilet_002 from Moderate (45) to Dirty (45 - int(15 * 1.5) = 23) and     *)
(* back to Moderate (23 + 22 = 45), one pass a minute.                      *)
(***************************************************************************)
History ==
    [i \in 1..LedgerCap |->
        IF i % 2 = 1
        THEN [toilet_id |-> "toilet_002", previous_status |-> "Moderate",
              new_status |-> "Dirty", new_score |-> 23,
              timestamp |-> i - LedgerCap - 1, type |-> "status_change",
              cleaner_email |-> "system"]
        ELSE [toilet_id |-> "toilet_002", previous_status |-> "Dirty",
              new_status |-> "Moderate", new_score |-> 45,
              timestamp |-> i - LedgerCap - 1, type |-> "status_change",
              cleaner_email |-> "system"]]

InitLedger ==
    /\ toilets_data = InitialToilets
    /\ real_time_updates = History
    /\ sim = [at |-> "sleep"]
    /\ handlers = [h \in Handlers |-> Idle]
    /\ last_response = Response("none", 0)
    /\ completions = EmptyBag
    /\ now = 0
    /\ InitDual

\* the threads that append to the list: the simulator, the handlers of
\* start_cleaning and the completion threads (update_toilet_status appends
\* as start_cleaning does, line 774)
NextLedger ==
    \/ simulate_real_time_updates
    \/ SimTrimStore
    \/ \E h \in Handlers : start_cleaning(h)
    \/ complete_cleaning

SpecLedger == InitLedger /\ [][NextLedger]_vars

\* the windows, in minutes, a reader asks for
Windows == {30, 60}

(***************************************************************************)
(* Claims on the combined service.                                         *)
(***************************************************************************)

\* C1: in every reachable state every toilet's hygiene_score is an integer
\* in [0,100].  Refuted: update_toilet_status stores the request's
\* hygiene_score unchecked.
C1_ScoreInRange ==
    \A t \in ToiletIds : toilets_data[t].hygiene_score \in 0..100

\* the status changes the simulator table allows
SimulatorEdges ==
    {<<"Clean", "Moderate">>, <<"Moderate", "Clean">>,
     <<"Moderate", "Dirty">>, <<"Dirty", "Moderate">>, <<"Dirty", "Clean">>}

\* the step is a start_cleaning handler writing the status of t
StartWritesStatus(t) ==
    \E h \in Handlers :
        /\ handlers[h].at = "idle"
        /\ handlers'[h].at = "start_mid"
        /\ handlers'[h].toilet_id = t

\* the step is a completion thread for t waking and writing the status
CompletionWritesStatus(t) ==
    \E c \in BagToSet(completions) :
        /\ c.toilet_id = t
        /\ c.at = "sleep"
        /\ completions' = (completions (-) SetToBag({c}))
                              (+) SetToBag({[c EXCEPT !.at = "mid"]})

\* C2: every change of a toilet's status is an edge of the simulator
\* table, an entry into In Progress made by start_cleaning, or
\* In Progress -> Clean made by a completion thread.  Refuted:
\* update_toilet_status writes any of Clean, Moderate, Dirty over any status.
C2_StatusEdges ==
    [][\A t \in ToiletIds :
          toilets_data'[t].status # toilets_data[t].status =>
              \/ <<toilets_data[t].status, toilets_data'[t].status>>
                     \in SimulatorEdges
              \/ /\ toilets_data'[t].status = "In Progress"
                 /\ StartWritesStatus(t)
              \/ /\ toilets_data[t].status = "In Progress"
                 /\ toilets_data'[t].status = "Clean"
                 /\ CompletionWritesStatus(t)]_vars

\* C3: a start-cleaning request for a toilet whose status is already
\* In Progress is rejected (409), so it is never accepted: no handler passes
\* the checks of start_cleaning for such a toilet.  Refuted: start_cleaning
\* never looks at the status.
C3_StartWhileCleaningRejected ==
    [][\A t \in ToiletIds :
          toilets_data[t].status = "In Progress" => ~StartWritesStatus(t)]_vars

\* completion threads of toilet t spawned and not yet woken
PendingCompletions(t) ==
    SumCopies({c \in BagToSet(completions) :
                  c.toilet_id = t /\ c.at = "sleep"}, completions)

\* C4: at most one completion thread is pending (spawned, not yet woken)
\* per toilet.  Refuted: start_cleaning starts two threads, and starts them
\* again on every further request.
C4_OnePendingCompletion ==
    \A t \in ToiletIds : PendingCompletions(t) <= 1

\* C5: while a toilet is In Progress only a completion thread spawned for it
\* changes its status.  Refuted: update_toilet_status overwrites the status
\* of a toilet that is In Progress.
C5_OnlyCompletionLeavesCleaning ==
    [][\A t \in ToiletIds :
          (toilets_data[t].status = "In Progress"
              /\ toilets_data'[t].status # "In Progress") =>
                  CompletionWritesStatus(t)]_vars

\* C6: two start-cleaning requests handled concurrently for one toilet never
\* both succeed: no two handler threads stand past the checks of
\* start_cleaning for the same toilet.  Refuted: nothing serializes them.
C6_NoConcurrentStarts ==
    \A h1, h2 \in Handlers :
        (h1 # h2 /\ handlers[h1].at = "start_mid"
                 /\ handlers[h2].at = "start_mid") =>
            handlers[h1].toilet_id # handlers[h2].toilet_id

\* a thread has made the first of its two writes (hygiene_score, status) to
\* toilet t and not yet the second
PartlyWritten(t) ==
    \/ sim.at = "mid" /\ sim.toilet_id = t
    \/ \E h \in Handlers :
          handlers[h].at \in {"update_mid", "start_mid"}
              /\ handlers[h].toilet_id = t
    \/ \E c \in BagToSet(completions) : c.at = "mid" /\ c.toilet_id = t

\* C7: no state shows a toilet with the hygiene_score of one transition and
\* the status of another: no thread is ever between its two writes where
\* other threads run.  Refuted: the writes are made without a lock.
C7_NoPartialUpdate ==
    \A t \in ToiletIds : ~PartlyWritten(t)

\* C8: a read of the recent updates returns at most LedgerCap entries and,
\* for every window w, no entry older than w minutes.  Refuted:
\* get_real_time_updates cuts by count only.
C8_RecentWithinWindow ==
    LET recent == get_real_time_updates(real_time_updates)
    IN  /\ Len(recent) <= LedgerCap
        /\ \A w \in Windows : \A i \in 1..Len(recent) :
              now - recent[i].timestamp <= w

\* the number of posts made for the update with this id
PushAttempts(id) ==
    Cardinality({i \in 1..Len(push_log) : push_log[i].update_id = id})

\* the step is handler h coming back from a post that failed
FailedPushBy(h) ==
    /\ staff_handlers[h].at = "push"
    /\ Len(push_log') = Len(push_log) + 1
    /\ push_log'[Len(push_log')].update_id = staff_handlers[h].update.id
    /\ push_log'[Len(push_log')].outcome \in FailedOutcomes

\* C9: a post to the public service that fails leaves the toilets and the
\* ledger of the staff service as the transition wrote them, the event stays
\* in the ledger, and the request is answered with 200.
C9_PushFailureKeepsTransition ==
    [][\A h \in Handlers :
          FailedPushBy(h) =>
              /\ staff_toilets_data' = staff_toilets_data
              /\ staff_updates' = staff_updates
              /\ \E i \in 1..Len(staff_updates') :
                    staff_updates'[i] = staff_handlers[h].update
              /\ staff_handlers'[h] = Idle
              /\ staff_response' = Response(staff_handlers[h].op, 200)]_vars

\* a post failed, its event is in the ledger, its toilet has the status the
\* event records, and the request was answered with 200
C9_Witness ==
    /\ \A h \in Handlers : staff_handlers[h] = Idle
    /\ staff_response.code = 200
    /\ \E i \in 1..Len(push_log), j \in 1..Len(staff_updates) :
          /\ push_log[i].outcome \in FailedOutcomes
          /\ staff_updates[j].id = push_log[i].update_id
          /\ staff_toilets_data[staff_updates[j].toilet_id].status =
                staff_updates[j].new_status

\* C10: every event in the ledger of the staff service is posted to the
\* public service exactly once by the handler that appended it: no post has
\* been made while that handler is still before its post, one has been made
\* once it is past it, and never more than one.
C10_ExactlyOnePush ==
    \A j \in 1..Len(staff_updates) :
        LET id == staff_updates[j].id
        IN  IF \E h \in Handlers : /\ staff_handlers[h].at = "push"
                                   /\ staff_handlers[h].update.id = id
            THEN PushAttempts(id) = 0
            ELSE PushAttempts(id) = 1

\* two events are in the ledger, the post of each failed and was made once,
\* and no handler is left that could post again
C10_Witness ==
    /\ Len(staff_updates) = 2
    /\ Len(push_log) = 2
    /\ \A i \in 1..Len(push_log) : push_log[i].outcome \in FailedOutcomes
    /\ \A h \in Handlers : staff_handlers[h] = Idle
    /\ PushAttempts(staff_updates[1].id) = 1
    /\ PushAttempts(staff_updates[2].id) = 1

(***************************************************************************)
(* Claims on the propagation between the staff and the public service.     *)
(***************************************************************************)

\* C11: the post to the public service does not block its caller: no
\* request handler of the staff service ever stands inside
\* send_update_to_public, its transition written and its answer held back
\* until the post is answered or times out.  Refuted: start_cleaning and
\* complete_cleaning call send_update_to_public themselves and answer only
\* after requests.post returned.
C11_PushDoesNotBlock ==
    \A h \in Handlers : staff_handlers[h].at # "push"

\* the public service's list holds the event of this update of the staff
\* service (under an id of its own)
Holds(updates, update) ==
    \E i \in 1..Len(updates) :
        /\ updates[i].toilet_id = update.toilet_id
        /\ updates[i].type = update.type
        /\ updates[i].previous_status = update.previous_status
        /\ updates[i].new_status = update.new_status
        /\ updates[i].new_score = update.new_score
        /\ updates[i].cleaner_name = update.cleaner_name
        /\ updates[i].timestamp = update.timestamp

\* the post of the update with this id found the public service unreachable
Refused(id) ==
    \E i \in 1..Len(push_log) :
        push_log[i].update_id = id /\ push_log[i].outcome = "refused"

\* the step is a sync pull of the public service that got its answer
PullAnswered == last_pull' # last_pull /\ last_pull'.outcome = "ok"

SpecRequired ==
    {"toilet_id", "toilet_name", "type", "previous_status", "new_status",
     "new_score", "timestamp"}

\* C13: a post to the webhook whose payload lacks one of toilet_id,
\* toilet_name, type, previous_status, new_status, new_score, timestamp is
\* answered with 400 and leaves the public service's list as it was.
\* Refuted: receive_update does not ask for new_score and stores 0 for it.
C13_WebhookRejectsIncomplete ==
    [][\A data \in WebhookPayloads :
          (~(SpecRequired \subseteq DOMAIN data) /\ WebhookPost(data)) =>
              /\ receive_update(data, public_updates).code = 400
              /\ public_updates' = public_updates]_vars

(***************************************************************************)
(* Claims on authorization, urgency and the task list.                     *)
(***************************************************************************)

\* C14: a start-cleaning or update-status request on a toilet that is not
\* assigned to the requesting user is rejected and changes nothing: no
\* handler passes the checks of start_cleaning or update_toilet_status, and
\* so comes to write, for a toilet whose cleaner_assigned is not its user.
\* Refuted: update_toilet_status looks at the role only.
C14_UnassignedRejected ==
    [][\A h \in Handlers :
          (handlers[h].at = "idle"
              /\ handlers'[h].at \in {"update_mid", "start_mid"}) =>
                  toilets_data[handlers'[h].toilet_id].cleaner_assigned
                      = handlers'[h].user]_vars

\* the points the urgency score is made of
StatusPoints(status) ==
    CASE status = "Dirty" -> 50
      [] status = "Needs Cleaning" -> 30
      [] status = "Moderate" -> 10
      [] OTHER -> 0

ScorePoints(hygiene_score) ==
    IF hygiene_score < 50 THEN 30 ELSE IF hygiene_score < 70 THEN 20 ELSE 0

AgePoints(hours) == IF hours > 8 THEN 20 ELSE IF hours > 4 THEN 10 ELSE 0

PriorityOf(score) ==
    IF score >= 70 THEN "high" ELSE IF score >= 40 THEN "medium" ELSE "low"

\* the urgency score and the priority of this toilet are those of C15
UrgencyAsStated(toilet, urgency_score, priority) ==
    /\ urgency_score =
          Min(100, StatusPoints(toilet.status)
                       + ScorePoints(toilet.hygiene_score)
                       + AgePoints((now - toilet.last_cleaned) \div 60))
    /\ urgency_score \in 0..100
    /\ priority = PriorityOf(urgency_score)

\* C15: for every toilet of the staff service last cleaned a whole number
\* of hours ago, calculate_urgency_score is min(100, status points + score
\* points + age points), lies in [0,100], and get_priority_level of it is
\* high from 70, medium from 40, else low; the entries of an answer of
\* get_staff_priority_toilets carry these values.
C15_UrgencyFormula ==
    /\ \A t \in ToiletIds :
          LET toilet == staff_toilets_data[t]
              urgency_score == calculate_urgency_score(toilet)
          IN  (now - toilet.last_cleaned) % 60 = 0 =>
                  UrgencyAsStated(toilet, urgency_score,
                                  get_priority_level(urgency_score))
    /\ staff_response.op = "priority_toilets" =>
          \A i \in 1..Len(staff_response.toilets) :
              LET info == staff_response.toilets[i]
              IN  UrgencyAsStated(staff_toilets_data[info.id],
                                  info.urgency_score, info.priority)

\* get_staff_priority_toilets answered with a toilet that is Dirty, below 50
\* and last cleaned more than 8 hours ago: 50 + 30 + 20, priority high
C15_Witness ==
    /\ staff_response.op = "priority_toilets"
    /\ staff_toilets_data["toilet_001"].status = "Dirty"
    /\ \E i \in 1..Len(staff_response.toilets) :
          /\ staff_response.toilets[i].id = "toilet_001"
          /\ staff_response.toilets[i].urgency_score = 100
          /\ staff_response.toilets[i].priority = "high"

\* C16: with the status fixed, no lower hygiene_score (the time of the last
\* cleaning fixed) and no earlier last cleaning (the hygiene_score fixed)
\* gives a lower urgency score.
C16_UrgencyMonotonic ==
    \A t \in ToiletIds :
        LET toilet == staff_toilets_data[t]
        IN  /\ \A sc \in 0..toilet.hygiene_score :
                  calculate_urgency_score([toilet EXCEPT !.hygiene_score = sc])
                      >= calculate_urgency_score(toilet)
            /\ \A hr \in 0..MaxHours :
                  0 - 60 * hr <= toilet.last_cleaned =>
                      calculate_urgency_score(
                          [toilet EXCEPT !.last_cleaned = 0 - 60 * hr])
                          >= calculate_urgency_score(toilet)

\* get_staff_priority_toilets answered for a toilet at the edge of a band
\* of both inputs: one point less of hygiene_score, or one hour more since
\* the last cleaning, gives a higher urgency score
C16_Witness ==
    LET toilet == staff_toilets_data["toilet_001"]
    IN  /\ staff_response.op = "priority_toilets"
        /\ toilet.hygiene_score = 70
        /\ toilet.last_cleaned = 0 - 60 * 4
        /\ calculate_urgency_score([toilet EXCEPT !.hygiene_score = 69])
              > calculate_urgency_score(toilet)
        /\ calculate_urgency_score([toilet EXCEPT !.last_cleaned = 0 - 60 * 5])
              > calculate_urgency_score(toilet)

\* C17: every task of the task list has the status in_progress when its
\* toilet is Dirty and its priority is high, completed when the toilet is
\* Clean, and pending otherwise, a toilet that is being cleaned included.
\* Refuted: get_staff_tasks of the staff service gives pending to Dirty and
\* Needs Cleaning and completed to everything else.
C17_TaskStatus ==
    staff_response.op = "tasks" =>
        \A i \in 1..Len(staff_response.tasks) :
            LET task == staff_response.tasks[i]
                toilet == staff_toilets_data[task.toilet_id]
            IN  task.status =
                   IF toilet.status = "Dirty" /\ task.priority = "high"
                   THEN "in_progress"
                   ELSE IF toilet.status = "Clean" THEN "completed"
                   ELSE "pending"

\* the place of a toilet id in the ascending order of the ids
IdRank(t) == CHOOSE k \in 1..Len(ToiletOrder) : ToiletOrder[k] = t

\* task a is not after task b by (status rank, - priority rank, toilet id)
InOrder(a, b) ==
    \/ StatusRank(a.status) < StatusRank(b.status)
    \/ /\ StatusRank(a.status) = StatusRank(b.status)
       /\ \/ PriorityRank(a.priority) > PriorityRank(b.priority)
          \/ /\ PriorityRank(a.priority) = PriorityRank(b.priority)
             /\ IdRank(a.toilet_id) <= IdRank(b.toilet_id)

\* C18: the task list is sorted by (status rank, - priority rank, toilet
\* id): in_progress before pending before completed, then high before medium
\* before low, then ascending id.  Refuted: get_staff_tasks of the combined
\* service sorts by (status rank, priority rank), low before high.
C18_TasksSorted ==
    (last_response.op = "tasks" /\ last_response.code = 200) =>
        \A i, j \in 1..Len(last_response.tasks) :
            i < j => InOrder(last_response.tasks[i], last_response.tasks[j])

(***************************************************************************)
(* Claims on the simulator and on the completion of a cleaning.            *)
(***************************************************************************)

\* a toilet of high occupancy that is Clean with hygiene_score 85, the
\* simulator about to make a pass (the category of a toilet enters only the
\* probability of a branch, not what the branch writes)
HighClean85(t) ==
    /\ ToiletOccupancy[t] = "high"
    /\ toilets_data[t].status = "Clean"
    /\ toilets_data[t].hygiene_score = 85
    /\ sim.at = "sleep"

\* the step is the simulator taking the Clean -> Moderate branch on t
TickCleanToModerate(t) ==
    sim.at = "sleep" /\ sim'.at = "mid" /\ sim'.toilet_id = t
        /\ sim'.branch = "C2M"

\* the step is the simulator writing the status of its branch
TickCommit == sim.at = "mid" /\ sim'.at = "sleep"

\* C19 as stated: the Clean -> Moderate branch on such a toilet leaves a
\* hygiene_score in [65,77], for every draw of randint(8, 20), and the
\* status Moderate.  Refuted: the draw is multiplied by 1.5 before it is
\* taken off, 85 - int(20 * 1.5) = 55.
C19_Range65To77 ==
    [][/\ \A t \in ToiletIds :
             (HighClean85(t) /\ TickCleanToModerate(t)) =>
                 /\ \A r \in 8..20 : CleanToModerateScore(85, r, t) \in 65..77
                 /\ toilets_data'[t].hygiene_score \in 65..77
       /\ (TickCommit /\ sim.branch = "C2M") =>
              toilets_data'[sim.toilet_id].status = "Moderate"]_vars

\* C19, amended: the Clean -> Moderate branch on such a toilet leaves a
\* hygiene_score in [55,73], for every draw of randint(8, 20), and the
\* status Moderate.
C19_Range55To73 ==
    [][/\ \A t \in ToiletIds :
             (HighClean85(t) /\ TickCleanToModerate(t)) =>
                 /\ \A r \in 8..20 : CleanToModerateScore(85, r, t) \in 55..73
                 /\ toilets_data'[t].hygiene_score \in 55..73
       /\ (TickCommit /\ sim.branch = "C2M") =>
              toilets_data'[sim.toilet_id].status = "Moderate"]_vars

\* the simulator took the Clean -> Moderate branch on a toilet of high
\* occupancy and wrote 55, which only 85 - int(20 * 1.5) gives among the
\* scores drawn
C19_Witness ==
    /\ sim.at = "mid"
    /\ sim.branch = "C2M"
    /\ ToiletOccupancy[sim.toilet_id] = "high"
    /\ toilets_data[sim.toilet_id].hygiene_score = 55

\* C20: every accepted start-cleaning request is in time followed by its
\* toilet being Clean and a completion event for it being in the list of
\* updates, without any further request.  Refuted: start_cleaning of the
\* staff service starts no completion; the toilet stays in 'Cleaning in
\* Progress' until a complete-cleaning request comes.  (The claim is put
\* for the states in which a further request can still be explored, so that
\* it is the service that stops, not the exploration.)
C20_StartLeadsToClean ==
    \A t \in ToiletIds :
        (/\ staff_toilets_data[t].status = "Cleaning in Progress"
         /\ Len(staff_updates) < MaxStaffUpdates)
            ~> (/\ staff_toilets_data[t].status = "Clean"
                /\ \E i \in 1..Len(staff_updates) :
                      /\ staff_updates[i].toilet_id = t
                      /\ staff_updates[i].type = "cleaning_completed")

(***************************************************************************)
(* Claims on the list of updates.                                          *)
(***************************************************************************)

\* the status toilet t was left in by the updates of the list `earlier`:
\* the new_status of the last of them that is about t, or the status t was
\* started with when none is
StatusBefore(t, earlier) ==
    LET own == SelectSeq(earlier, LAMBDA u : u.toilet_id = t)
    IN  IF own = << >> THEN InitialToilets[t].status
        ELSE own[Len(own)].new_status

\* the step appends one update to real_time_updates
Appended ==
    /\ Len(real_time_updates') = Len(real_time_updates) + 1
    /\ SubSeq(real_time_updates', 1, Len(real_time_updates))
          = real_time_updates

\* no thread but the one that makes the step stands between its writes
NoOtherThreadMidway == Begun - Len(real_time_updates) <= 1

\* C21: every update appended to the list, by a thread that no other thread
\* runs across, describes the transition that made it: its previous_status
\* is the status the toilet had before the transition (the one the update
\* before it left, or the one the toilet was started with), and its
\* new_status and new_score are the status and the hygiene_score the toilet
\* has once the update is appended.  Refuted: start_cleaning of the
\* combined service reads previous_status from the toilet after it wrote
\* 'In Progress' to it.
C21_EventDescribesTransition ==
    [][(Appended /\ NoOtherThreadMidway) =>
          LET e == real_time_updates'[Len(real_time_updates')]
              t == e.toilet_id
          IN  /\ e.previous_status = StatusBefore(t, real_time_updates)
              /\ e.new_status = toilets_data'[t].status
              /\ e.new_score = toilets_data'[t].hygiene_score]_vars

\* the step is a handler or a completion thread appending its update to
\* real_time_updates: the list changes, and not by the simulator
AppendStep ==
    /\ real_time_updates' # real_time_updates
    /\ sim' = sim

\* C22: the list of updates holds no more than LedgerCap updates (between
\* the passes of the simulator, whose own append is followed by its cut),
\* and an append by a handler or a completion thread to a list that holds
\* LedgerCap updates takes off exactly the oldest one.  Refuted: the
\* handlers and the completion threads append without looking at the
\* length; the list is cut only at the end of the next pass of the
\* simulator.
C22_LedgerBounded ==
    /\ [](sim.at = "sleep" => Len(real_time_updates) <= LedgerCap)
    /\ [][(AppendStep /\ Len(real_time_updates) = LedgerCap) =>
             /\ Len(real_time_updates') = LedgerCap
             /\ SubSeq(real_time_updates', 1, LedgerCap - 1)
                   = Tail(real_time_updates)]_vars

\* C23: no step takes an update off the list but the oldest ones, and these
\* only as far as the list is longer than LedgerCap: what is left of the
\* list after the k oldest begins the list after the step, for some k that
\* the capacity asks for.  Refuted: an update appended between the slice
\* real_time_updates[-50:] and the assignment of the slice to the global
\* name is in the list the name was bound to before, and in no list after.
C23_NoEventLost ==
    [][\E k \in 0..Max(0, Len(real_time_updates) - LedgerCap) :
          LET rest == SubSeq(real_time_updates, k + 1, Len(real_time_updates))
          IN  /\ Len(real_time_updates') >= Len(rest)
              /\ SubSeq(real_time_updates', 1, Len(rest)) = rest]_vars

(***************************************************************************)
(* Claims on the passes of the simulator.                                  *)
(***************************************************************************)

\* the step is the simulator beginning a pass with toilet t as its
\* random.choice
SimTick(t) ==
    \/ SimCleanToModerate(t)
    \/ SimModerateToClean(t)
    \/ SimModerateToDirty(t)
    \/ SimDirtyToModerate(t)
    \/ SimDirtyToClean(t)
    \/ SimNoChange(t)

\* the list of updates as the pass of the simulator that the step belongs
\* to leaves it: the slice it is about to bind the name to, if it made one
LedgerAfterPass ==
    IF sim'.at = "trim" THEN sim'.kept ELSE real_time_updates'

TickWritesScore(t, b) ==
    /\ sim.at = "sleep"
    /\ sim'.at = "mid"
    /\ sim'.toilet_id = t
    /\ sim'.branch = b

\* the branches that better the status, and those that worsen it
Improving == {"M2C", "D2M", "D2C"}

Degrading == {"C2M", "M2D"}

\* the cap of a branch that betters the status, the floor of one that
\* worsens it
BranchBound(b) ==
    CASE b = "C2M" -> 50
      [] b = "M2C" -> 95
      [] b = "M2D" -> 10
      [] b = "D2M" -> 60
      [] OTHER -> 90

\* C25 as stated: a branch of the simulator that betters the status never
\* lowers the hygiene_score, and one that worsens the status never raises
\* it.  Refuted: min(60, score + r) lowers a score above 60, max(50, score
\* - drop) raises a score below 50.
C25_ScoreFollowsStatus ==
    [][\A t \in ToiletIds, b \in Improving \cup Degrading :
          TickWritesScore(t, b) =>
              IF b \in Improving
              THEN toilets_data'[t].hygiene_score
                       >= toilets_data[t].hygiene_score
              ELSE toilets_data'[t].hygiene_score
                       <= toilets_data[t].hygiene_score]_vars

\* C25, amended: a branch that betters the status never lowers the
\* hygiene_score below the smaller of the score before and the cap of the
\* branch, and a branch that worsens the status never raises it above the
\* larger of the score before and the floor of the branch: the score moves
\* against the status only when it was beyond the cap or the floor, and
\* then to the cap or the floor.
C25_ScoreFollowsStatusWithinBounds ==
    [][\A t \in ToiletIds, b \in Improving \cup Degrading :
          TickWritesScore(t, b) =>
              IF b \in Improving
              THEN toilets_data'[t].hygiene_score
                       >= Min(toilets_data[t].hygiene_score, BranchBound(b))
              ELSE toilets_data'[t].hygiene_score
                       <= Max(toilets_data[t].hygiene_score, BranchBound(b))]_vars

\* the simulator took the Dirty -> Moderate branch and wrote 40, below the
\* cap of 60: the score before was 40 less the draw, so the branch raised it
C25_Witness ==
    /\ sim.at = "mid"
    /\ sim.branch = "D2M"
    /\ toilets_data[sim.toilet_id].status = "Dirty"
    /\ toilets_data[sim.toilet_id].hygiene_score = 40

\* C26: the hygiene_score a branch of the simulator writes keeps the bound
\* of the branch: at least 50 after Clean -> Moderate, at most 95 after
\* Moderate -> Clean, at least 10 after Moderate -> Dirty, at most 60 after
\* Dirty -> Moderate, at most 90 after Dirty -> Clean; and the update the
\* branch appends carries that score.
C26_ScoreKeepsBranchBound ==
    [][/\ \A t \in ToiletIds, b \in Improving \cup Degrading :
             TickWritesScore(t, b) =>
                 IF b \in Improving
                 THEN toilets_data'[t].hygiene_score <= BranchBound(b)
                 ELSE toilets_data'[t].hygiene_score >= BranchBound(b)
       /\ TickCommit =>
             LET e == real_time_updates'[Len(real_time_updates')]
             IN  IF sim.branch \in Improving
                 THEN e.new_score <= BranchBound(sim.branch)
                 ELSE e.new_score >= BranchBound(sim.branch)]_vars

\* the simulator took the Moderate -> Clean branch on a toilet and wrote
\* the cap, 95, which for the scores drawn only the cap gives (85 + 25 and
\* more are above it)
C26_Witness ==
    /\ sim.at = "mid"
    /\ sim.branch = "M2C"
    /\ toilets_data[sim.toilet_id].status = "Moderate"
    /\ toilets_data[sim.toilet_id].hygiene_score = 95

(***************************************************************************)
(* Claims on the priority of a task, on the public service's list and on   *)
(* what a request leaves alone.                                            *)
(***************************************************************************)

\* C27: the priority of every task of the task list is the priority level
\* of the urgency score of its toilet: get_priority_level of
\* calculate_urgency_score.  Refuted: get_staff_tasks of the combined
\* service takes the priority from calculate_priority, which looks at the
\* hygiene_score and the time since the last cleaning alone and has bands
\* of its own (a Clean toilet with score 85 cleaned 10 hours ago is high
\* there, and low by its urgency score of 20).
C27_TaskPriorityFromUrgency ==
    (last_response.op = "tasks" /\ last_response.code = 200) =>
        \A i \in 1..Len(last_response.tasks) :
            LET task == last_response.tasks[i]
            IN  task.priority =
                   get_priority_level(
                       calculate_urgency_score(toilets_data[task.toilet_id]))

\* an entry of a list of updates records the event of this update of the
\* staff service: the ids apart (each list gives its own), all is equal
SameEvent(entry, update) ==
    /\ entry.toilet_id = update.toilet_id
    /\ entry.type = update.type
    /\ entry.previous_status = update.previous_status
    /\ entry.new_status = update.new_status
    /\ entry.new_score = update.new_score
    /\ entry.cleaner_name = update.cleaner_name
    /\ entry.timestamp = update.timestamp

\* the number of entries of the list that record this event
CopiesOf(updates, update) ==
    Cardinality({i \in 1..Len(updates) : SameEvent(updates[i], update)})

\* C28: the public service's list never holds two entries for one event of
\* the staff service: it records no event more often than the staff
\* service's list does.  Refuted: sync_with_staff_interface appends every
\* update of the pull's answer under a new id, the ones the webhook has
\* stored or will store included.
C28_NoDuplicateEvents ==
    \A j \in 1..Len(staff_updates) :
        CopiesOf(public_updates, staff_updates[j])
            <= CopiesOf(staff_updates, staff_updates[j])

\* the step is handler h running start_cleaning on toilet t: it passes the
\* checks and writes the status, or it writes the rest and answers
StartCleaningStep(h, t) ==
    \/ /\ handlers[h].at = "idle"
       /\ handlers'[h].at = "start_mid"
       /\ handlers'[h].toilet_id = t
    \/ /\ handlers[h].at = "start_mid"
       /\ handlers[h].toilet_id = t
       /\ handlers'[h].at = "idle"

\* C29: a start-cleaning request that is accepted changes of its toilet the
\* status alone: hygiene_score, last_cleaned, the amenities and
\* cleaner_assigned are after every step of the handler what they were
\* before it.  Refuted: start_cleaning of the combined service writes
\* hygiene_score = 50.
C29_StartChangesOnlyStatus ==
    [][\A h \in Handlers, t \in ToiletIds :
          (StartCleaningStep(h, t) /\ NoOtherThreadMidway) =>
              toilets_data'[t] =
                  [toilets_data[t] EXCEPT
                      !.status = toilets_data'[t].status]]_vars

\* the answers of the read requests
ReadOps == {"toilets", "toilet", "tasks", "updates"}

\* the step is a read request being answered
ReadAnswered == last_response' # last_response /\ last_response'.op \in ReadOps

\* C30: a read request (the list of toilets, one toilet, the task list, the
\* updates) leaves every toilet, the timestamps of its reviews included,
\* and the list of updates as they were.  Refuted: get_toilets makes the
\* timestamp of every stored review a string, through the shallow copy of
\* the toilet.
C30_ReadsChangeNothing ==
    [][ReadAnswered =>
          /\ toilets_data' = toilets_data
          /\ real_time_updates' = real_time_updates]_vars

=============================================================================
